---- MODULE Spec2Model ----
(***************************************************************************)
(* Model of the playlist queue engine of the youtube-player Stimulus       *)
(* controller (src/src/controller.js): the queue, the current video, the   *)
(* preserve-mode cursor, the persisted record in localStorage, the         *)
(* metadata lookups in flight, and the rendered queue list whose           *)
(* data-index attributes feed the remove and drag handlers.                *)
(***************************************************************************)
EXTENDS Integers, Sequences, FiniteSets, TLC

(* ------------------------------ bounds -------------------------------- *)
\* longest queue: a handler that would make it longer is not taken, and a
\* pasted link starts a lookup only while the queue and the lookups in flight
\* together stay below it
MaxQueue == 2
\* most elements of the queue that are no objects
MaxHoles == 1
\* longest queue of the drag-and-drop specification
MaxReorder == 4
\* the ids its queues hold, in their first order
ReorderIds == <<"A", "B", "C", "D", "E">>
\* how far below 0 the model lets previous() take a cursor that is not in range
MaxBelow == 2
\* video ids the chat, the link input and shared links can carry
VideoIds == {"A", "B"}
\* longest t parameter of a link
MaxParam == 4
\* chat clients created on one page
MaxClients == 2
\* the characters a t parameter is made of
DigitChars == {"0", "2", "5", "9"}
ParamChars == DigitChars \cup {"m", "s"}
\* shared-playlist links (?list=...) the page can be opened with; <<>> is no list
SharedLists == {<<>>, <<"B", "A">>}
\* shared-playlist links as sharePlaylist builds them and with an id repeated
ImportLists == {<<"B", "A">>, <<"B", "A", "B">>}

(* --------------------------- JavaScript values ------------------------ *)
\* A JavaScript primitive: t is its type tag, v its numeric payload.
Null == [t |-> "null", v |-> 0]
Undefined == [t |-> "undefined", v |-> 0]
NaN == [t |-> "NaN", v |-> 0]
Num(n) == [t |-> "number", v |-> n]
Bool(b) == [t |-> "boolean", v |-> IF b THEN 1 ELSE 0]

IsNum(x) == x.t = "number"

\* a % n of JavaScript for n > 0: the sign of the result is the dividend's
JSRem(a, n) == IF a >= 0 THEN a % n ELSE 0 - ((0 - a) % n)

\* x + 1 and x - 1 for a number, undefined or NaN (never called on null)
JSPlus(x, d) == IF IsNum(x) THEN Num(x.v + d) ELSE NaN

\* x % n for n > 0
JSMod(x, n) == IF IsNum(x) THEN Num(JSRem(x.v, n)) ELSE NaN

(* ------------------------------ queue items --------------------------- *)
\* What is not an object: the undefined read past the end of an array, and
\* the null JSON.parse gives back for it.
UndefinedItem ==
  [kind |-> "undefined", videoId |-> "-", title |-> <<>>, channel |-> "-",
   thumbnail |-> <<>>, username |-> "-", startTime |-> Undefined, addedAt |-> "-"]
NullItem ==
  [kind |-> "null", videoId |-> "-", title |-> <<>>, channel |-> "-",
   thumbnail |-> <<>>, username |-> "-", startTime |-> Undefined, addedAt |-> "-"]

IsObject(item) == item.kind = "object"

\* the object addToQueue builds from the result of fetchVideoInfo
FetchedItem(videoId, username, startTime) ==
  [kind |-> "object", videoId |-> videoId,
   title |-> <<"title of", videoId>>, channel |-> "author",
   thumbnail |-> <<"thumbnail_url of", videoId>>,
   username |-> username, startTime |-> startTime, addedAt |-> "Date"]

\* PlaceholderItem with the defaults fetchVideoInfo gives an empty answer
PlaceholderUntitled(videoId, username, startTime) ==
  [kind |-> "object", videoId |-> videoId, title |-> <<"Unknown Title">>,
   channel |-> "Unknown Channel",
   thumbnail |-> <<"https://img.youtube.com/vi/", videoId, "/mqdefault.jpg">>,
   username |-> username, startTime |-> startTime, addedAt |-> "Date"]

\* the object addToQueue builds in its catch branch
PlaceholderItem(videoId, username, startTime) ==
  [kind |-> "object", videoId |-> videoId,
   title |-> <<"Video ", videoId>>, channel |-> "Unknown",
   thumbnail |-> <<"https://img.youtube.com/vi/", videoId, "/mqdefault.jpg">>,
   username |-> username, startTime |-> startTime, addedAt |-> "Date"]

(* ------------------------------ arrays -------------------------------- *)
\* array[i] for any index value: undefined unless i is 0 .. length-1
At(array, i) ==
  IF IsNum(i) /\ i.v >= 0 /\ i.v < Len(array) THEN array[i.v + 1] ELSE UndefinedItem

\* the position splice() starts at: negative counts from the end, clamped
SpliceStart(array, start) ==
  IF start < 0
    THEN (IF Len(array) + start < 0 THEN 0 ELSE Len(array) + start)
    ELSE (IF start > Len(array) THEN Len(array) ELSE start)

\* array.splice(start, 1)
SpliceRemove(array, start) ==
  LET k == SpliceStart(array, start)
  IN  IF k >= Len(array) THEN array
      ELSE SubSeq(array, 1, k) \o SubSeq(array, k + 2, Len(array))

\* array.splice(start, 0, item)
SpliceInsert(array, start, item) ==
  LET k == SpliceStart(array, start)
  IN  SubSeq(array, 1, k) \o <<item>> \o SubSeq(array, k + 1, Len(array))

\* array.findIndex(item => item.videoId === videoId): the first match, -1 when
\* there is none; reading .videoId of a non-object before a match throws
RECURSIVE FindFrom(_, _, _)
FindFrom(array, videoId, k) ==
  IF k > Len(array) THEN [threw |-> FALSE, index |-> -1]
  ELSE IF ~IsObject(array[k]) THEN [threw |-> TRUE, index |-> -1]
  ELSE IF array[k].videoId = videoId THEN [threw |-> FALSE, index |-> k - 1]
  ELSE FindFrom(array, videoId, k + 1)

\* a search that finds nothing
FindNothing(array, videoId) == [threw |-> FALSE, index |-> -1]

FindIndex(array, videoId) == FindFrom(array, videoId, 1)

(* ------------------------------ state --------------------------------- *)
VARIABLES
  queue,              \* this.queue
  currentVideo,       \* this.currentVideo
  currentVideoIndex,  \* this.currentVideoIndex
  autoplay,           \* this.autoplay
  preservePlaylist,   \* this.preservePlaylist
  channelName,        \* whether this.channelNameValue names a channel
  player,             \* this.player: "none", "created" (no methods yet), "ready"
  stored,             \* localStorage item 'youtubePlayerState'
  location,           \* the ids of the ?list= parameter of the page address
  pending,            \* addToQueue calls awaiting fetchVideoInfo, oldest first
  rendered,           \* number of queueItem elements in the queue list
  draggedIndex,       \* this.draggedIndex
  youtubeLinkInput,   \* the link typed into youtubeLinkInputTarget
  progressInterval,   \* this.progressInterval: null or an interval's handle
  intervals,          \* number of intervals set and not cleared
  isConnected,        \* this.isConnected
  clients,            \* the tmi clients made on this page, each "connecting",
                      \* "connected" or "closed"; this.client is the last one
  last                \* the handler that ran last and what it did outwards

vars == <<queue, currentVideo, currentVideoIndex, autoplay, preservePlaylist,
          channelName, player, stored, location, pending, rendered,
          draggedIndex, youtubeLinkInput, progressInterval, intervals,
          isConnected, clients, last>>

\* The controller's fields as one record, threaded through a handler's
\* statements; cmd, notice, threw and wrote collect what the handler does
\* outwards: its last player command, its notice, whether it threw and whether
\* it wrote the record.
Cur ==
  [queue |-> queue, currentVideo |-> currentVideo,
   currentVideoIndex |-> currentVideoIndex, autoplay |-> autoplay,
   preservePlaylist |-> preservePlaylist, channelName |-> channelName,
   player |-> player, stored |-> stored, location |-> location,
   rendered |-> rendered, draggedIndex |-> draggedIndex,
   youtubeLinkInput |-> youtubeLinkInput,
   progressInterval |-> progressInterval, intervals |-> intervals,
   isConnected |-> isConnected, clients |-> clients,
   cmd |-> "none", notice |-> "none", threw |-> FALSE, wrote |-> FALSE]

(* --------------------------- persistence codec ------------------------ *)
\* JSON.stringify then JSON.parse of a property value: NaN is written as null
\* and an undefined property is left out, so it reads back as undefined
JsonValue(x) == IF x.t = "NaN" THEN Null ELSE x

\* ... of an object: a Date is written as a string
JsonObject(item) ==
  [item EXCEPT !.addedAt = "String", !.startTime = JsonValue(item.startTime)]

\* ... of a property holding an item
JsonProperty(item) == IF IsObject(item) THEN JsonObject(item) ELSE item

\* ... of an array element: undefined is written as null
JsonElement(item) == IF IsObject(item) THEN JsonObject(item) ELSE NullItem

JsonArray(array) == [k \in 1..Len(array) |-> JsonElement(array[k])]

\* no item under the key
MissingRecord ==
  [kind |-> "missing", queue |-> <<>>, currentVideo |-> UndefinedItem,
   currentVideoIndex |-> Undefined, autoplay |-> Undefined,
   preservePlaylist |-> Undefined, channelName |-> FALSE]

\* an item JSON.parse rejects
CorruptRecord == [MissingRecord EXCEPT !.kind = "corrupt"]

\* the state object saveState writes, as JSON.parse reads it back
Serialize(s) ==
  [kind |-> "record", queue |-> JsonArray(s.queue),
   currentVideo |-> JsonProperty(s.currentVideo),
   currentVideoIndex |-> JsonValue(s.currentVideoIndex),
   autoplay |-> Bool(s.autoplay),
   preservePlaylist |-> Bool(s.preservePlaylist),
   channelName |-> s.channelName]

SaveState(s) == [s EXCEPT !.stored = Serialize(s), !.wrote = TRUE]

(* ------------------------------ rendering ----------------------------- *)
\* updateQueueDisplay: the list is rebuilt from the queue; reading
\* item.startTime of an element that is no object throws before innerHTML is
\* assigned, and the list stays as it was
UpdateQueueDisplay(s) ==
  IF Len(s.queue) = 0 THEN [s EXCEPT !.rendered = 0]
  ELSE IF \E k \in 1..Len(s.queue) : ~IsObject(s.queue[k])
    THEN [s EXCEPT !.threw = TRUE]
  ELSE [s EXCEPT !.rendered = Len(s.queue)]

(* ------------------------------- links -------------------------------- *)
\* the text of the link field: the video id of the YouTube link in it (""
\* when it holds none) and the link's t parameter, present or not
Link(videoId, present, text) ==
  [videoId |-> videoId, present |-> present, text |-> text]

\* the empty link field
NoLink == Link("", FALSE, <<>>)

\* parseInt of a string of digits
DigitValue(char) ==
  CASE char = "0" -> 0 [] char = "2" -> 2 [] char = "5" -> 5 [] char = "9" -> 9

RECURSIVE ParseInt(_)
ParseInt(digits) ==
  IF Len(digits) = 0 THEN 0
  ELSE ParseInt(SubSeq(digits, 1, Len(digits) - 1)) * 10
         + DigitValue(digits[Len(digits)])

\* how many characters \d+ takes at the start of text
RECURSIVE LeadingDigits(_)
LeadingDigits(text) ==
  IF Len(text) > 0 /\ Head(text) \in DigitChars
    THEN 1 + LeadingDigits(Tail(text))
    ELSE 0

\* the four patterns of extractStartTime tried in turn on the parameter text;
\* ends holds what the second pattern lets follow the seconds
MatchStartTime(text, ends) ==
  LET n == LeadingDigits(text)
      first == ParseInt(SubSeq(text, 1, n))
      rest == SubSeq(text, n + 1, Len(text))
      after == SubSeq(rest, 2, Len(rest))
      k == LeadingDigits(after)
      second == ParseInt(SubSeq(after, 1, k))
  IN  IF n = 0 THEN Null
      ELSE IF rest = <<>> THEN Num(first)
      ELSE IF /\ rest[1] = "m" /\ k > 0
              /\ SubSeq(after, k + 1, Len(after)) \in ends
        THEN Num(first * 60 + second)
      ELSE IF rest = <<"m">> THEN Num(first * 60)
      ELSE IF rest = <<"s">> THEN Num(first)
      ELSE Null

\* ExtractStartTime with the s after the seconds required
ExtractStartTimeStrict(link) ==
  IF ~link.present \/ link.text = <<>> THEN Null
  ELSE MatchStartTime(link.text, {<<"s">>})

\* extractStartTime(url)
ExtractStartTime(link) ==
  IF ~link.present \/ link.text = <<>> THEN Null
  ELSE MatchStartTime(link.text, {<<>>, <<"s">>})

(* --------------------------- progress polling ------------------------- *)
\* the handle setInterval returns
Handle == [t |-> "handle", v |-> 0]

\* stopProgressTracking()
StopProgressTracking(s) ==
  IF s.progressInterval # Null
    THEN [s EXCEPT !.intervals = @ - 1, !.progressInterval = Null]
    ELSE s

\* StartProgressTracking without the call that clears the interval it has
StartProgressTrackingAgain(s) ==
  [s EXCEPT !.intervals = @ + 1, !.progressInterval = Handle]

\* startProgressTracking()
StartProgressTracking(s) ==
  LET s1 == StopProgressTracking(s)
  IN  [s1 EXCEPT !.intervals = @ + 1, !.progressInterval = Handle]

(* ------------------------------ playback ------------------------------ *)
\* the tail of playNext: loadVideoById when manual or autoplay, else
\* cueVideoById, once the player has its methods; reading .videoId of a
\* current video that is no object throws
LoadCurrent(s, manual) ==
  IF s.player # "ready" THEN s
  ELSE IF ~IsObject(s.currentVideo) THEN [s EXCEPT !.threw = TRUE]
  ELSE IF manual \/ s.autoplay THEN [s EXCEPT !.cmd = "loadVideoById"]
  ELSE [s EXCEPT !.cmd = "cueVideoById"]

\* NextIndex without the remainder, running off the end of the queue
NextIndexPastEnd(index, length) ==
  IF index # Null THEN JSPlus(index, 1) ELSE Num(0)

\* the cursor playNext moves to in preserve mode
NextIndex(index, length) ==
  IF index # Null THEN JSMod(JSPlus(index, 1), length) ELSE Num(0)

\* PlayNext reading the head of the queue without taking it off
PlayNextPeek(s, manual) ==
  IF Len(s.queue) = 0
    THEN [s EXCEPT !.currentVideo = NullItem, !.currentVideoIndex = Null]
  ELSE
    LET index == NextIndex(s.currentVideoIndex, Len(s.queue))
        s1 == IF s.preservePlaylist
                THEN [s EXCEPT !.currentVideoIndex = index,
                               !.currentVideo = At(s.queue, index)]
                ELSE [s EXCEPT !.currentVideo = Head(s.queue),
                               !.currentVideoIndex = Null]
        s2 == UpdateQueueDisplay(s1)
    IN  IF s2.threw THEN s2 ELSE LoadCurrent(SaveState(s2), manual)

\* playNext(manual)
PlayNext(s, manual) ==
  IF Len(s.queue) = 0
    THEN [s EXCEPT !.currentVideo = NullItem, !.currentVideoIndex = Null]
  ELSE
    LET index == NextIndex(s.currentVideoIndex, Len(s.queue))
        s1 == IF s.preservePlaylist
                THEN [s EXCEPT !.currentVideoIndex = index,
                               !.currentVideo = At(s.queue, index)]
                ELSE [s EXCEPT !.currentVideo = Head(s.queue),
                               !.queue = Tail(s.queue),
                               !.currentVideoIndex = Null]
        s2 == UpdateQueueDisplay(s1)
    IN  IF s2.threw THEN s2 ELSE LoadCurrent(SaveState(s2), manual)

\* the cursor previous() moves to
PreviousIndex(index, length) ==
  IF index = Null THEN Num(0)
  ELSE IF index = Num(0) THEN Num(length - 1)
  ELSE JSPlus(index, -1)

\* previous()
Previous(s) ==
  IF s.player = "none" THEN s
  ELSE IF s.preservePlaylist /\ Len(s.queue) > 0 THEN
    LET index == PreviousIndex(s.currentVideoIndex, Len(s.queue))
        s1 == [s EXCEPT !.currentVideoIndex = index,
                        !.currentVideo = At(s.queue, index)]
        s2 == UpdateQueueDisplay(s1)
    IN  IF s2.threw THEN s2
        ELSE LET s3 == SaveState(s2)
             IN  IF s3.player # "ready" \/ ~IsObject(s3.currentVideo)
                   THEN [s3 EXCEPT !.threw = TRUE]
                   ELSE [s3 EXCEPT !.cmd = "loadVideoById"]
  ELSE [s EXCEPT !.notice = "info"]

\* reset(): the player is destroyed and recreated by a timer
Reset(s) ==
  LET s1 == [s EXCEPT !.player = "none", !.queue = <<>>,
                      !.currentVideo = NullItem]
      s2 == SaveState(UpdateQueueDisplay(s1))
  IN  [s2 EXCEPT !.notice = "success"]

\* stop(); a player that has no methods yet makes stopVideo() throw
Stop(s) ==
  IF s.player = "none" THEN s
  ELSE IF s.player # "ready" THEN [s EXCEPT !.threw = TRUE]
  ELSE
    LET s1 == SaveState([s EXCEPT !.cmd = "stopVideo",
                                  !.currentVideo = NullItem])
    IN  IF Len(s1.queue) = 0 THEN Reset(s1)
        ELSE IF s1.autoplay THEN PlayNext(s1, FALSE)
        ELSE s1

(* ------------------------------ toggles ------------------------------- *)
\* toggleAutoplay(), checked being the state of the checkbox
ToggleAutoplay(s, checked) == SaveState([s EXCEPT !.autoplay = checked])

\* TogglePreservePlaylist leaving the cursor alone when the mode is consume
TogglePreserveKeepCursor(s, checked) ==
  LET s1 == SaveState([s EXCEPT !.preservePlaylist = checked])
  IN  IF s1.preservePlaylist /\ IsObject(s1.currentVideo) THEN
        LET found == FindIndex(s1.queue, s1.currentVideo.videoId)
        IN  IF found.threw THEN [s1 EXCEPT !.threw = TRUE]
            ELSE UpdateQueueDisplay(
                   [s1 EXCEPT !.currentVideoIndex = Num(found.index)])
      ELSE UpdateQueueDisplay(s1)

\* togglePreservePlaylist(): the state is saved before the cursor is set
TogglePreservePlaylist(s, checked) ==
  LET s1 == SaveState([s EXCEPT !.preservePlaylist = checked])
  IN  IF s1.preservePlaylist /\ IsObject(s1.currentVideo) THEN
        LET found == FindIndex(s1.queue, s1.currentVideo.videoId)
        IN  IF found.threw THEN [s1 EXCEPT !.threw = TRUE]
            ELSE UpdateQueueDisplay(
                   [s1 EXCEPT !.currentVideoIndex = Num(found.index)])
      ELSE UpdateQueueDisplay([s1 EXCEPT !.currentVideoIndex = Null])

(* ------------------------- remove, clear, reorder --------------------- *)
\* RemoveFromQueue moving the cursor up when an item before it is removed
RemoveAndRebase(s, index) ==
  LET cursor == s.currentVideoIndex
      s0 == IF IsNum(cursor) /\ index < cursor.v
              THEN [s EXCEPT !.currentVideoIndex = Num(cursor.v - 1)] ELSE s
      s1 == UpdateQueueDisplay([s0 EXCEPT !.queue = SpliceRemove(s.queue, index)])
  IN  IF s1.threw THEN s1 ELSE SaveState(s1)

\* removeFromQueue(event), index being the button's data-index
RemoveFromQueue(s, index) ==
  LET s1 == UpdateQueueDisplay([s EXCEPT !.queue = SpliceRemove(s.queue, index)])
  IN  IF s1.threw THEN s1 ELSE SaveState(s1)

\* ClearQueue dropping the current video and the cursor with the queue
ClearQueueAndCurrent(s) ==
  SaveState(UpdateQueueDisplay([s EXCEPT !.queue = <<>>,
                                         !.currentVideo = NullItem,
                                         !.currentVideoIndex = Null]))

\* clearQueue()
ClearQueue(s) == SaveState(UpdateQueueDisplay([s EXCEPT !.queue = <<>>]))

\* the integer splice() takes an index value for (undefined and NaN give 0)
ToInteger(x) == IF IsNum(x) THEN x.v ELSE 0

\* RebaseIndex with the second comparison strict: an item dropped on the
\* playing one from above no longer shifts the cursor
RebaseIndexStrict(index, dragged, dropIndex) ==
  IF ~IsNum(index) \/ ~IsNum(dragged) THEN index
  ELSE IF dragged.v = index.v THEN Num(dropIndex)
  ELSE IF dragged.v < index.v /\ dropIndex > index.v THEN Num(index.v - 1)
  ELSE IF dragged.v > index.v /\ dropIndex <= index.v THEN Num(index.v + 1)
  ELSE index

\* the cursor after the item at dragged was moved to dropIndex; a comparison
\* with an undefined or NaN operand is false
RebaseIndex(index, dragged, dropIndex) ==
  IF ~IsNum(index) \/ ~IsNum(dragged) THEN index
  ELSE IF dragged.v = index.v THEN Num(dropIndex)
  ELSE IF dragged.v < index.v /\ dropIndex >= index.v THEN Num(index.v - 1)
  ELSE IF dragged.v > index.v /\ dropIndex <= index.v THEN Num(index.v + 1)
  ELSE index

\* MoveItem putting the item back one place further down
MoveItemBelow(array, dragged, dropIndex) ==
  SpliceInsert(SpliceRemove(array, ToInteger(dragged)), dropIndex + 1,
               At(array, dragged))

\* the queue after the two splices of drop
MoveItem(array, dragged, dropIndex) ==
  SpliceInsert(SpliceRemove(array, ToInteger(dragged)), dropIndex,
               At(array, dragged))

\* drop(event), dropIndex being the drop target's data-index; draggedIndex is
\* undefined until the first dragstart and null after a dragend
Drop(s, dropIndex) ==
  IF s.draggedIndex = Null \/ s.draggedIndex = Num(dropIndex) THEN s
  ELSE
    LET s1 == [s EXCEPT !.queue = MoveItem(s.queue, s.draggedIndex, dropIndex)]
        s2 == IF s1.preservePlaylist /\ s1.currentVideoIndex # Null
                THEN [s1 EXCEPT !.currentVideoIndex =
                        RebaseIndex(s1.currentVideoIndex, s1.draggedIndex, dropIndex)]
                ELSE s1
        s3 == UpdateQueueDisplay(s2)
    IN  IF s3.threw THEN s3 ELSE SaveState(s3)

\* dragStart(event) and dragEnd(event)
DragStart(s, index) == [s EXCEPT !.draggedIndex = Num(index)]
DragEnd(s) == [s EXCEPT !.draggedIndex = Null]

(* ------------------------------ enqueue ------------------------------- *)
\* an addToQueue call that passed its duplicate check and awaits the lookup;
\* rest holds the ids loadSharedPlaylist has still to add after this one
Request(videoId, username, startTime, shared, rest) ==
  [videoId |-> videoId, username |-> username, startTime |-> startTime,
   shared |-> shared, rest |-> rest]

\* addToQueue after the await: the try block when the lookup succeeded, then
\* the catch block when the lookup or a later statement of the try block threw
AddToQueueResume(s, req, ok) ==
  LET fetched == FetchedItem(req.videoId, req.username, req.startTime)
      fallback == PlaceholderItem(req.videoId, req.username, req.startTime)
      s1 == UpdateQueueDisplay([s EXCEPT !.queue = Append(s.queue, fetched)])
      s2 == IF s1.threw THEN s1 ELSE SaveState(s1)
      s3 == IF s2.threw \/ IsObject(s2.currentVideo) THEN s2
            ELSE PlayNext(s2, FALSE)
      tried == IF ok THEN s3 ELSE [s EXCEPT !.threw = TRUE]
  IN  IF ~tried.threw THEN tried
      ELSE UpdateQueueDisplay(
             [tried EXCEPT !.threw = FALSE,
                           !.queue = Append(tried.queue, fallback)])

\* the for loop of loadSharedPlaylist from the id it has reached: an id in the
\* queue is skipped, an id that is not starts its lookup and the loop waits;
\* after the last id the list is taken off the address
RECURSIVE SharedLoop(_, _)
SharedLoop(s, ids) ==
  IF Len(ids) = 0
    THEN [state |-> [s EXCEPT !.location = <<>>, !.notice = "success"],
          request |-> <<>>]
  ELSE
    LET found == FindIndex(s.queue, Head(ids))
    IN  IF found.threw
          THEN [state |-> [s EXCEPT !.notice = "error"], request |-> <<>>]
        ELSE IF found.index >= 0 THEN SharedLoop(s, Tail(ids))
        ELSE [state |-> s,
              request |-> <<Request(Head(ids), "Shared Playlist", Null,
                                    TRUE, Tail(ids))>>]

\* LoadSharedPlaylist going through the list from its end
LoadSharedBackwards(s) ==
  IF Len(s.location) = 0 THEN [state |-> s, request |-> <<>>]
  ELSE SharedLoop([s EXCEPT !.queue = <<>>],
                  [k \in 1..Len(s.location) |->
                     s.location[Len(s.location) + 1 - k]])

\* loadSharedPlaylist() up to its first await
LoadSharedPlaylist(s) ==
  IF Len(s.location) = 0 THEN [state |-> s, request |-> <<>>]
  ELSE SharedLoop([s EXCEPT !.queue = <<>>], s.location)


(* ------------------------------ startup ------------------------------- *)
\* the try block of loadState(): JSON.parse throws on an item it cannot
\* parse, and updateQueueDisplay on a queue element that is no object; the
\* statements after a throw are skipped
Restore(s) ==
  IF s.stored.kind = "missing" THEN s
  ELSE IF s.stored.kind = "corrupt" THEN [s EXCEPT !.threw = TRUE]
  ELSE
    LET state == s.stored
        s1 == UpdateQueueDisplay([s EXCEPT !.queue = state.queue])
        s2 == IF IsObject(state.currentVideo)
                THEN [s1 EXCEPT !.currentVideo = state.currentVideo,
                                !.currentVideoIndex = state.currentVideoIndex]
                ELSE s1
        s3 == IF state.autoplay.t = "boolean"
                THEN [s2 EXCEPT !.autoplay = (state.autoplay.v = 1)]
                ELSE s2
        s4 == IF state.preservePlaylist.t = "boolean"
                THEN [s3 EXCEPT !.preservePlaylist = (state.preservePlaylist.v = 1)]
                ELSE s3
    IN  IF s1.threw THEN s1 ELSE [s4 EXCEPT !.channelName = state.channelName]

\* loadState() without its try and catch
LoadStateUncaught(s) == Restore(s)

\* loadState(): its catch logs what the try block threw
LoadState(s) == [Restore(s) EXCEPT !.threw = FALSE]

\* Fresh with autoplay taken from the preservePlaylist value
FreshSwapped(record, list) ==
  [queue |-> <<>>, currentVideo |-> NullItem, currentVideoIndex |-> Null,
   autoplay |-> TRUE, preservePlaylist |-> TRUE, channelName |-> FALSE,
   player |-> "none", stored |-> record, location |-> list,
   rendered |-> 0, draggedIndex |-> Undefined,
   youtubeLinkInput |-> NoLink, progressInterval |-> Null, intervals |-> 0,
   isConnected |-> FALSE, clients |-> <<>>,
   cmd |-> "none", notice |-> "none", threw |-> FALSE, wrote |-> FALSE]

\* the fields connect() sets before it calls loadState: the values' defaults
\* are autoplay false and preservePlaylist true
Fresh(record, list) ==
  [queue |-> <<>>, currentVideo |-> NullItem, currentVideoIndex |-> Null,
   autoplay |-> FALSE, preservePlaylist |-> TRUE, channelName |-> FALSE,
   player |-> "none", stored |-> record, location |-> list,
   rendered |-> 0, draggedIndex |-> Undefined,
   youtubeLinkInput |-> NoLink, progressInterval |-> Null, intervals |-> 0,
   isConnected |-> FALSE, clients |-> <<>>,
   cmd |-> "none", notice |-> "none", threw |-> FALSE, wrote |-> FALSE]

\* connectToTwitch(): disconnect() is called on the client there is, which
\* keeps its listeners, and a new client starts to connect
ConnectToTwitch(s) == [s EXCEPT !.clients = Append(@, "connecting")]

\* connectToChannel() with a channel name in the field, as connect() calls it
ConnectToChannel(s) ==
  ConnectToTwitch(SaveState([s EXCEPT !.channelName = TRUE]))

\* connect(): the page was opened with this record in localStorage and this
\* list in its address; apiLoaded tells whether window.YT is there already
Connect(record, list, apiLoaded) ==
  LET s1 == LoadState(Fresh(record, list))
      s2 == IF apiLoaded THEN [s1 EXCEPT !.player = "created"] ELSE s1
      shared == LoadSharedPlaylist(s2)
      s3 == shared.state
  IN  [state |-> IF s3.channelName THEN ConnectToChannel(s3) ELSE s3,
       request |-> shared.request]

\* a record the older controller (no preserve mode) wrote
OldItem(videoId) ==
  [FetchedItem(videoId, "viewer", Undefined) EXCEPT !.addedAt = "String"]

OldRecord(items, current, auto) ==
  [kind |-> "record", queue |-> items, currentVideo |-> current,
   currentVideoIndex |-> Undefined, autoplay |-> Bool(auto),
   preservePlaylist |-> Undefined, channelName |-> FALSE]

OldRecords ==
  {OldRecord(<<OldItem("A")>>, OldItem("B"), FALSE),
   OldRecord(<<OldItem("A")>>, NullItem, TRUE)}

\* a record this controller wrote in preserve mode with the first n of
\* ReorderIds queued and the one at index playing
ReorderItem(k) == JsonObject(FetchedItem(ReorderIds[k], "Manual", Null))

ReorderRecord(n, index) ==
  [kind |-> "record", queue |-> [k \in 1..n |-> ReorderItem(k)],
   currentVideo |-> ReorderItem(index + 1), currentVideoIndex |-> Num(index),
   autoplay |-> Bool(FALSE), preservePlaylist |-> Bool(TRUE),
   channelName |-> FALSE]

ReorderRecords ==
  {ReorderRecord(n, index) : n \in {MaxReorder - 1, MaxReorder}, index \in {0, 2}}

(* ------------------------------ actions ------------------------------- *)
\* what the handler op did outwards: the indices a and b it was given, the
\* videoId it was about, the player command and the notice it issued,
\* whether it threw and whether it wrote the record
Done(op, a, b, s) ==
  [op |-> op, a |-> a, b |-> b, id |-> "-", cmd |-> s.cmd, notice |-> s.notice,
   threw |-> s.threw, wrote |-> s.wrote]

\* a handler ends in state s with the lookups pend in flight; cap bounds the
\* growth of the queue, MaxBelow the cursor and MaxClients the chat clients
Assign(cap, s, pend) ==
  /\ Len(s.queue) <= cap \/ Len(s.queue) <= Len(queue)
  /\ Cardinality({k \in 1..Len(s.queue) : ~IsObject(s.queue[k])}) <= MaxHoles
  /\ IsNum(s.currentVideoIndex) => s.currentVideoIndex.v >= 0 - MaxBelow
  /\ Len(s.clients) <= MaxClients
  /\ queue' = s.queue
  /\ currentVideo' = s.currentVideo
  /\ currentVideoIndex' = s.currentVideoIndex
  /\ autoplay' = s.autoplay
  /\ preservePlaylist' = s.preservePlaylist
  /\ channelName' = s.channelName
  /\ player' = s.player
  /\ stored' = s.stored
  /\ location' = s.location
  /\ rendered' = s.rendered
  /\ draggedIndex' = s.draggedIndex
  /\ youtubeLinkInput' = s.youtubeLinkInput
  /\ progressInterval' = s.progressInterval
  /\ intervals' = s.intervals
  /\ isConnected' = s.isConnected
  /\ clients' = s.clients
  /\ pending' = pend

\* the handler op, given the indices a and b, ends in state s
Commit(cap, op, a, b, s, pend) ==
  /\ Assign(cap, s, pend)
  /\ last' = Done(op, a, b, s)

\* the handler op, about the video videoId, ends in state s; b is 1 when the
\* lookup of the video succeeded, 0 when it failed, -1 when none has ended
CommitVideo(op, videoId, b, s, pend) ==
  /\ Assign(MaxQueue, s, pend)
  /\ last' = [Done(op, -1, b, s) EXCEPT !.id = videoId]

\* the page is opened with one of these records and lists, and one of these
\* links is typed into the link field
OpenedWith(records, lists, links) ==
  \E record \in records, list \in lists, link \in links, apiLoaded \in BOOLEAN :
    LET c == Connect(record, list, apiLoaded)
    IN  /\ queue = c.state.queue
        /\ currentVideo = c.state.currentVideo
        /\ currentVideoIndex = c.state.currentVideoIndex
        /\ autoplay = c.state.autoplay
        /\ preservePlaylist = c.state.preservePlaylist
        /\ channelName = c.state.channelName
        /\ player = c.state.player
        /\ stored = c.state.stored
        /\ location = c.state.location
        /\ rendered = c.state.rendered
        /\ draggedIndex = c.state.draggedIndex
        /\ youtubeLinkInput = link
        /\ progressInterval = c.state.progressInterval
        /\ intervals = c.state.intervals
        /\ isConnected = c.state.isConnected
        /\ clients = c.state.clients
        /\ pending = c.request
        /\ last = Done("connect", -1, -1, c.state)

\* the page is opened with one of these records and lists
Opened(records, lists) == OpenedWith(records, lists, {NoLink})

\* the page is reloaded, or opened again through a shared link
OpenPage ==
  \E list \in {location} \cup SharedLists, apiLoaded \in BOOLEAN :
    LET c == Connect(stored, list, apiLoaded)
    IN  Commit(MaxQueue, "connect", -1, -1, c.state, c.request)

\* the user connects a chat channel
ConnectClick ==
  Commit(MaxQueue, "connectToChannel", -1, -1, ConnectToChannel(Cur), pending)

\* the connect() promise of this.client resolves
ClientConnected ==
  /\ Len(clients) > 0
  /\ clients[Len(clients)] = "connecting"
  /\ Commit(MaxQueue, "clientConnected", Len(clients), -1,
            [Cur EXCEPT !.clients[Len(clients)] = "connected",
                        !.isConnected = TRUE, !.notice = "success"], pending)

\* the connect() promise of a client rejects: of this.client, or of an older
\* one that connectToTwitch told to disconnect while it was connecting
ClientFailed ==
  \E k \in 1..Len(clients) :
    /\ clients[k] = "connecting"
    /\ Commit(MaxQueue, "clientFailed", k, -1,
              [Cur EXCEPT !.clients[k] = "closed",
                          !.isConnected = FALSE, !.notice = "error"], pending)

\* a client that had connected emits 'disconnected': this.client when the
\* server drops it, an older one after connectToTwitch told it to disconnect
ClientDisconnected ==
  \E k \in 1..Len(clients) :
    /\ clients[k] = "connected"
    /\ Commit(MaxQueue, "clientDisconnected", k, -1,
              [Cur EXCEPT !.clients[k] = "closed",
                          !.isConnected = FALSE], pending)

\* addToQueue(videoId, username, startTime) up to its await, as
\* addToQueueByUrl calls it for a chat message or a pasted link
AddToQueue ==
  \E videoId \in VideoIds :
    LET found == FindIndex(queue, videoId)
    IN  IF found.threw
          THEN CommitVideo("addToQueue", videoId, -1,
                           [Cur EXCEPT !.threw = TRUE], pending)
        ELSE IF found.index >= 0
          THEN CommitVideo("addToQueue", videoId, -1, Cur, pending)
        ELSE /\ Len(queue) + Len(pending) < MaxQueue
             /\ CommitVideo("addToQueue", videoId, -1, Cur,
                            Append(pending, Request(videoId, "Manual", Null, FALSE, <<>>)))

\* the lookup of pending[k] settles and its addToQueue call runs to its end;
\* for a call of loadSharedPlaylist the loop then goes on, unless the call
\* threw, which the loop's catch reports
LookupDone ==
  \E k \in 1..Len(pending), ok \in BOOLEAN :
    LET req == pending[k]
        others == SubSeq(pending, 1, k - 1) \o SubSeq(pending, k + 1, Len(pending))
        s1 == AddToQueueResume(Cur, req, ok)
        shared == IF s1.threw
                    THEN [state |-> [s1 EXCEPT !.threw = FALSE, !.notice = "error"],
                          request |-> <<>>]
                    ELSE SharedLoop(s1, req.rest)
        b == IF ok THEN 1 ELSE 0
    IN  IF req.shared
          THEN CommitVideo("lookupDone", req.videoId, b, shared.state,
                           others \o shared.request)
          ELSE CommitVideo("lookupDone", req.videoId, b, s1, others)

\* addYoutubeLink(): the link in the field goes through addToQueueByUrl,
\* which runs addToQueue up to its await, and the field is emptied
AddYoutubeLink ==
  LET link == youtubeLinkInput
      found == FindIndex(queue, link.videoId)
      sent == [Cur EXCEPT !.youtubeLinkInput = NoLink, !.notice = "success"]
  IN  IF link.videoId = ""
        THEN CommitVideo("addYoutubeLink", link.videoId, -1,
                         [Cur EXCEPT !.notice = "error"], pending)
      ELSE IF found.threw
        THEN CommitVideo("addYoutubeLink", link.videoId, -1,
                         [sent EXCEPT !.threw = TRUE], pending)
      ELSE IF found.index >= 0
        THEN CommitVideo("addYoutubeLink", link.videoId, -1, sent, pending)
      ELSE CommitVideo("addYoutubeLink", link.videoId, -1, sent,
                       Append(pending, Request(link.videoId, "Manual",
                                               ExtractStartTime(link), FALSE, <<>>)))

NextClick == Commit(MaxQueue, "next", -1, -1, PlayNext(Cur, TRUE), pending)
PreviousClick == Commit(MaxQueue, "previous", -1, -1, Previous(Cur), pending)
StopClick == Commit(MaxQueue, "stop", -1, -1, Stop(Cur), pending)
ResetClick == Commit(MaxQueue, "reset", -1, -1, Reset(Cur), pending)

ToggleAutoplayClick ==
  \E checked \in BOOLEAN :
    Commit(MaxQueue, "toggleAutoplay", -1, -1, ToggleAutoplay(Cur, checked), pending)

TogglePreserveClick ==
  \E checked \in BOOLEAN :
    Commit(MaxQueue, "togglePreservePlaylist", -1, -1,
           TogglePreservePlaylist(Cur, checked), pending)

\* the indices of the rendered list are what the handlers can be given
RemoveClick ==
  \E index \in 0..(rendered - 1) :
    Commit(MaxQueue, "removeFromQueue", index, -1,
           RemoveFromQueue(Cur, index), pending)

ClearClick == Commit(MaxQueue, "clearQueue", -1, -1, ClearQueue(Cur), pending)

\* createPlayer(), from the API's ready callback or from the timer of reset
CreatePlayer ==
  /\ player = "none"
  /\ Commit(MaxQueue, "createPlayer", -1, -1,
            [Cur EXCEPT !.player = "created"], pending)

\* onPlayerReady(event): polling starts unless updateQueueDisplay threw
OnPlayerReady ==
  /\ player = "created"
  /\ LET s1 == [Cur EXCEPT !.player = "ready"]
         s2 == IF IsObject(s1.currentVideo)
                 THEN [s1 EXCEPT !.cmd = "cueVideoById"] ELSE s1
         s3 == UpdateQueueDisplay(s2)
     IN  Commit(MaxQueue, "onPlayerReady", -1, -1,
                IF s3.threw THEN s3 ELSE StartProgressTracking(s3), pending)

\* the ENDED signal answered by playNext whatever autoplay is
OnEndedAlways ==
  /\ player = "ready"
  /\ Commit(MaxQueue, "onEnded", -1, -1, PlayNext(Cur, FALSE), pending)

\* onPlayerStateChange(event) with YT.PlayerState.ENDED
OnEnded ==
  /\ player = "ready"
  /\ Commit(MaxQueue, "onEnded", -1, -1,
            IF autoplay THEN PlayNext(Cur, FALSE) ELSE Cur, pending)

\* onPlayerStateChange(event) with YT.PlayerState.PLAYING
OnPlaying ==
  /\ player = "ready"
  /\ Commit(MaxQueue, "onPlaying", -1, -1, StartProgressTracking(Cur), pending)

\* onPlayerStateChange(event) with YT.PlayerState.PAUSED
OnPaused ==
  /\ player = "ready"
  /\ Commit(MaxQueue, "onPaused", -1, -1, StopProgressTracking(Cur), pending)

\* onPlayerStateChange(event) with YT.PlayerState.BUFFERING
OnBuffering ==
  /\ player = "ready"
  /\ Commit(MaxQueue, "onBuffering", -1, -1, StopProgressTracking(Cur), pending)

(* ----------------------- the queue engine in a page -------------------- *)
\* the first visit: nothing is stored yet, and the address holds no list
Init == Opened({MissingRecord}, {<<>>})

Next ==
  \/ AddToQueue
  \/ LookupDone
  \/ NextClick
  \/ PreviousClick
  \/ StopClick
  \/ ResetClick
  \/ ToggleAutoplayClick
  \/ TogglePreserveClick
  \/ RemoveClick
  \/ ClearClick
  \/ CreatePlayer
  \/ OnPlayerReady
  \/ OnEnded

Spec == Init /\ [][Next]_vars

(* ------------------- the persisted record across pages ----------------- *)
\* nothing is stored, or something no JSON parser accepts
InitPage == Opened({MissingRecord, CorruptRecord}, SharedLists)

NextPage ==
  \/ OpenPage
  \/ ConnectClick
  \/ LookupDone
  \/ NextClick
  \/ StopClick
  \/ ToggleAutoplayClick
  \/ TogglePreserveClick
  \/ CreatePlayer
  \/ OnPlayerReady

SpecPage == InitPage /\ [][NextPage]_vars

(* ---------------- the first page after the older controller ------------ *)
InitUpgrade == Opened(OldRecords, {<<>>})

SpecUpgrade == InitUpgrade /\ [][NextPage]_vars

(* ------------------- a shared link opened, nothing else ---------------- *)
\* the record a page without videos holds after its switches were used
SwitchRecord(preserve, auto) ==
  Serialize([Fresh(MissingRecord, <<>>) EXCEPT !.preservePlaylist = preserve,
                                               !.autoplay = auto])

\* the record of a consume-mode page that is playing A, its queue used up
PlayingRecord ==
  Serialize([Fresh(MissingRecord, <<>>) EXCEPT
               !.preservePlaylist = FALSE,
               !.currentVideo = FetchedItem("A", "Manual", Null)])

ImportRecords ==
  {MissingRecord, PlayingRecord}
    \cup {SwitchRecord(preserve, auto) : preserve \in BOOLEAN, auto \in BOOLEAN}

InitImport == Opened(ImportRecords, ImportLists)

\* the lookups of the import settle one after the other while the player
\* comes up; no handler is called from outside
NextImport ==
  \/ LookupDone
  \/ CreatePlayer
  \/ OnPlayerReady

SpecImport == InitImport /\ [][NextImport]_vars

(* ------------------------ a link typed into the field ------------------ *)
\* the t parameters: the texts of ParamChars up to MaxParam long
Params == UNION {[1..n -> ParamChars] : n \in 0..MaxParam}

\* links with and without a video id, with and without a t parameter
Links ==
  {Link(videoId, TRUE, text) : videoId \in VideoIds \cup {""}, text \in Params}
    \cup {Link(videoId, FALSE, <<>>) : videoId \in VideoIds \cup {""}}

InitLink == OpenedWith({MissingRecord}, {<<>>}, Links)

NextLink ==
  \/ AddYoutubeLink
  \/ LookupDone

SpecLink == InitLink /\ [][NextLink]_vars

(* ------------------------ an imported playlist edited ------------------ *)
\* a shared link is imported and the user plays, removes and clears items and
\* switches the mode
NextEdit ==
  \/ LookupDone
  \/ NextClick
  \/ TogglePreserveClick
  \/ RemoveClick
  \/ ClearClick
  \/ CreatePlayer
  \/ OnPlayerReady

SpecEdit == InitImport /\ [][NextEdit]_vars

(* --------------------- the player's signals on a playlist -------------- *)
\* a shared link is imported and the player reports what it does, while the
\* user stops and resets it
NextProgress ==
  \/ LookupDone
  \/ CreatePlayer
  \/ OnPlayerReady
  \/ OnPlaying
  \/ OnPaused
  \/ OnBuffering
  \/ OnEnded
  \/ StopClick
  \/ ResetClick

SpecProgress == InitImport /\ [][NextProgress]_vars

(* ------------------------------ drag and drop -------------------------- *)
DragStartEvent ==
  \E index \in 0..(rendered - 1) :
    Commit(MaxReorder, "dragStart", index, -1, DragStart(Cur, index), pending)

DragEndEvent ==
  /\ IsNum(draggedIndex)
  /\ Commit(MaxReorder, "dragEnd", -1, -1, DragEnd(Cur), pending)

DropEvent ==
  \E dropIndex \in 0..(rendered - 1) :
    Commit(MaxReorder, "drop", ToInteger(draggedIndex), dropIndex,
           Drop(Cur, dropIndex), pending)

InitReorder == Opened(ReorderRecords, {<<>>})

NextReorder ==
  \/ DragStartEvent
  \/ DragEndEvent
  \/ DropEvent

SpecReorder == InitReorder /\ [][NextReorder]_vars

(* ----------------------------- the chat clients ------------------------ *)
\* the user connects to a channel, and again, while videos are requested and
\* the clients report what became of their connections
NextConnect ==
  \/ ConnectClick
  \/ ClientConnected
  \/ ClientFailed
  \/ ClientDisconnected
  \/ AddToQueue
  \/ LookupDone

SpecConnect == Init /\ [][NextConnect]_vars

(* ------------------------ a stored playlist played --------------------- *)
\* a page opened on a stored preserve-mode playlist; the user steps through
\* it and uses the switches while the player comes up and reports its ends
NextCycle ==
  \/ NextClick
  \/ PreviousClick
  \/ OnEnded
  \/ ToggleAutoplayClick
  \/ TogglePreserveClick
  \/ CreatePlayer
  \/ OnPlayerReady

SpecCycle == InitReorder /\ [][NextCycle]_vars

(* ------------------------------ properties ---------------------------- *)
\* the videoIds of the queue's objects, in order
Ids(array) == [k \in 1..Len(array) |-> array[k].videoId]

AllObjects(array) == \A k \in 1..Len(array) : IsObject(array[k])

Distinct(array) ==
  \A i, j \in 1..Len(array) :
    (i < j /\ IsObject(array[i]) /\ IsObject(array[j]))
      => array[i].videoId # array[j].videoId

InRange(i, array) == i >= 0 /\ i < Len(array)

\* C1: whatever addToQueue calls were made, also with their lookups pending
\* at the same time, no two items of the queue have the same videoId.
C1_NoDuplicateVideoIds == Distinct(queue)

\* C2: in preserve mode with a current video, the cursor is an index of the
\* queue and the item there has the current video's videoId.
C2_CursorOnCurrentVideo ==
  (preservePlaylist /\ IsObject(currentVideo))
    => /\ IsNum(currentVideoIndex)
       /\ InRange(currentVideoIndex.v, queue)
       /\ At(queue, currentVideoIndex).videoId = currentVideo.videoId

\* the drop that just ran moved an item between two indices of the queue
ReorderInRange ==
  /\ last'.op = "drop"
  /\ IsNum(draggedIndex) /\ InRange(draggedIndex.v, queue)
  /\ InRange(last'.b, queue)
  /\ draggedIndex.v # last'.b

\* C3: a drop in preserve mode that moves an item of a queue of distinct
\* items between two different indices in range, with the cursor on the
\* current video before, leaves the cursor on that same item and the current
\* video as it was.
C3_ReorderKeepsCursor ==
  [][(/\ ReorderInRange
      /\ preservePlaylist
      /\ AllObjects(queue) /\ Distinct(queue)
      /\ IsNum(currentVideoIndex) /\ InRange(currentVideoIndex.v, queue)
      /\ At(queue, currentVideoIndex) = currentVideo)
     => (/\ IsNum(currentVideoIndex')
         /\ At(queue', currentVideoIndex') = currentVideo
         /\ currentVideo' = currentVideo)]_vars

\* [A,B,C,D] with the cursor on C, A dropped on D: [B,C,D,A] with the cursor
\* at 1, still on C
C3_Witness ==
  /\ last.op = "drop" /\ last.a = 0 /\ last.b = 3
  /\ preservePlaylist
  /\ Ids(queue) = <<"B", "C", "D", "A">>
  /\ currentVideoIndex = Num(1)
  /\ currentVideo.videoId = "C"

\* C4: in consume mode the cursor is null, also on a page that loaded a
\* record this controller wrote.
C4_ConsumeCursorNull == ~preservePlaylist => currentVideoIndex = Null

\* C5: a remove or a drop given an index that is no index of the queue
\* signals the failure and leaves queue, current video and cursor as they
\* were.
C5_InvalidIndexRejected ==
  [][(\/ /\ last'.op = "removeFromQueue"
         /\ ~InRange(last'.a, queue)
      \/ /\ last'.op = "drop"
         /\ draggedIndex # Null
         /\ \/ ~IsNum(draggedIndex)
            \/ ~InRange(draggedIndex.v, queue)
            \/ ~InRange(last'.b, queue))
     => (/\ last'.threw \/ last'.notice = "error"
         /\ queue' = queue
         /\ currentVideo' = currentVideo
         /\ currentVideoIndex' = currentVideoIndex)]_vars

\* the stored record is what saveState would write now
Persisted == stored = Serialize(Cur)

\* C6: a handler that changes queue, current video, cursor, mode or autoplay
\* leaves the stored record equal to the serialization of the new state.
C6_ChangesArePersisted ==
  [][<<queue, currentVideo, currentVideoIndex, preservePlaylist, autoplay>>'
       # <<queue, currentVideo, currentVideoIndex, preservePlaylist, autoplay>>
     => Persisted']_vars

\* C7: a page that loads the record saveState wrote for the state s, its
\* address holding no list, has the queue, current video, cursor, mode and
\* autoplay of s (an item compared as JSON writes it).
C7_RoundTrip ==
  [][(/\ last'.op = "connect"
      /\ Len(location') = 0
      /\ Persisted)
     => (/\ queue' = JsonArray(queue)
         /\ currentVideo' = JsonProperty(currentVideo)
         /\ currentVideoIndex' = currentVideoIndex
         /\ preservePlaylist' = preservePlaylist
         /\ autoplay' = autoplay)]_vars

\* the page has just been opened with nothing stored
OpenedOnNothing == last.op = "connect" /\ stored.kind = "missing"

OpenedOnOldRecord ==
  /\ last.op = "connect"
  /\ stored.kind = "record"
  /\ stored.preservePlaylist = Undefined
  /\ stored.currentVideoIndex = Undefined
  /\ IsObject(stored.currentVideo)

\* C9: a page opened on such a record is in consume mode with a null cursor,
\* and has the record's queue and current video.
C9_OldRecordDefaults ==
  OpenedOnOldRecord
    => /\ ~preservePlaylist
       /\ currentVideoIndex = Null
       /\ queue = stored.queue
       /\ currentVideo = stored.currentVideo

\* the page has just been opened on a record no JSON parser accepts
OpenedOnCorrupt == last.op = "connect" /\ stored.kind = "corrupt"

\* C10: a page opened on such a record has thrown nothing to its caller and
\* has an empty queue, no current video and a null cursor.
C10_CorruptRecordRecovered ==
  OpenedOnCorrupt
    => /\ ~last.threw
       /\ queue = <<>>
       /\ currentVideo = NullItem
       /\ currentVideoIndex = Null

C10_Witness == OpenedOnCorrupt /\ ~last.threw /\ queue = <<>>

\* the lookup of the video last.id has just failed
LookupFailed == last.op = "lookupDone" /\ last.b = 0

\* the queue is the queue before with one placeholder for last.id at its end
PlaceholderAppended(before, after) ==
  /\ Len(after) = Len(before) + 1
  /\ SubSeq(after, 1, Len(before)) = before
  /\ LET item == after[Len(after)]
     IN  /\ IsObject(item)
         /\ item.videoId = last'.id
         /\ item.title = <<"Video ", last'.id>>
         /\ item.channel = "Unknown"
         /\ item.thumbnail = <<"https://img.youtube.com/vi/", last'.id, "/mqdefault.jpg">>

\* C11: when the lookup of an addToQueue call fails, the call appends one item
\* for its videoId at the end of the queue, titled "Video {videoId}", of
\* channel "Unknown", its thumbnail address built from the videoId, and it
\* neither throws nor shows an error.
C11_PlaceholderOnFailure ==
  [][LookupFailed'
     => (/\ PlaceholderAppended(queue, queue')
         /\ ~last'.threw
         /\ last'.notice # "error")]_vars

C11_Witness ==
  /\ LookupFailed /\ last.id = "B"
  /\ Len(queue) = 2
  /\ queue[1].videoId = "A"
  /\ queue[2].title = <<"Video ", "B">>

\* the addToQueue call that has just ended found no current video when its
\* lookup ended
EnqueuedOnIdle == last'.op = "lookupDone" /\ ~IsObject(currentVideo)

\* C12: an addToQueue call that adds an item while there is no current video
\* ends with a current video, whether its lookup succeeded or failed.
C12_EnqueueLoadsFirst ==
  [][(EnqueuedOnIdle /\ Len(queue') > Len(queue)) => IsObject(currentVideo')]_vars

\* addToQueue has just been called for a video the queue holds
EnqueuedPresent(array) ==
  /\ last.op = "addToQueue"
  /\ \E k \in 1..Len(array) : IsObject(array[k]) /\ array[k].videoId = last.id

\* C13: addToQueue for a videoId the queue holds leaves queue, current video
\* and cursor as they were, starts no lookup and gives the player no command.
C13_DuplicateIsNoOp ==
  [][EnqueuedPresent(queue)'
     => (/\ queue' = queue
         /\ currentVideo' = currentVideo
         /\ currentVideoIndex' = currentVideoIndex
         /\ pending' = pending
         /\ last'.cmd = "none")]_vars

C13_Witness ==
  /\ EnqueuedPresent(queue) /\ last.id = "B"
  /\ Ids(queue) = <<"A", "B">>
  /\ IsObject(currentVideo)

\* next() has just run, or the player's ENDED signal with autoplay on:
\* playNext ran on the queue as it was
Advanced == last'.op = "next" \/ (last'.op = "onEnded" /\ autoplay)

\* C14: in consume mode playNext on a non-empty queue makes the head of the
\* queue the current video, takes exactly it off the queue and leaves the
\* cursor null.
C14_ConsumeAdvance ==
  [][(Advanced /\ ~preservePlaylist /\ Len(queue) > 0)
     => (/\ currentVideo' = Head(queue)
         /\ queue' = Tail(queue)
         /\ currentVideoIndex' = Null)]_vars

C14_Witness ==
  /\ last.op = "next" /\ ~preservePlaylist
  /\ currentVideo.videoId = "A"
  /\ Ids(queue) = <<"B">>
  /\ currentVideoIndex = Null

\* the cursor after index in a queue of length items, going round
CursorAfter(index, length) ==
  IF IsNum(index) THEN Num((index.v + 1) % length) ELSE Num(0)

\* C15: in preserve mode playNext on a non-empty queue leaves the queue as it
\* was, moves a cursor that was set to (cursor + 1) mod the queue's length
\* and one that was null to 0, and makes the item there the current video.
C15_PreserveAdvance ==
  [][(/\ Advanced /\ preservePlaylist /\ Len(queue) > 0
      /\ IsNum(currentVideoIndex) \/ currentVideoIndex = Null)
     => (/\ queue' = queue
         /\ currentVideoIndex' = CursorAfter(currentVideoIndex, Len(queue))
         /\ currentVideo' = queue[currentVideoIndex'.v + 1])]_vars

\* the array without its element at index from, that element put back so
\* that it is at index to
Moved(array, from, to) ==
  LET rest == SubSeq(array, 1, from) \o SubSeq(array, from + 2, Len(array))
  IN  SubSeq(rest, 1, to) \o <<array[from + 1]>> \o SubSeq(rest, to + 1, Len(rest))

\* the elements of the array other than the one at index i, in order
Others(array, i) == SubSeq(array, 1, i) \o SubSeq(array, i + 2, Len(array))

\* the drop that just ran was given two indices of the queue
DroppedInRange ==
  /\ last'.op = "drop"
  /\ IsNum(draggedIndex) /\ InRange(draggedIndex.v, queue)
  /\ InRange(last'.b, queue)

\* C16: a drop given two indices of the queue takes the item at the first out
\* and puts it in at the second: the queue keeps its length, the moved item is
\* at the second index and the other items keep their order; given the same
\* index twice it changes nothing and writes no record.
C16_ReorderMovesOneItem ==
  [][DroppedInRange
     => IF draggedIndex.v = last'.b
          THEN /\ queue' = queue
               /\ currentVideo' = currentVideo
               /\ currentVideoIndex' = currentVideoIndex
               /\ stored' = stored
               /\ ~last'.wrote
          ELSE /\ queue' = Moved(queue, draggedIndex.v, last'.b)
               /\ Len(queue') = Len(queue)
               /\ queue'[last'.b + 1] = queue[draggedIndex.v + 1]
               /\ Others(queue', last'.b) = Others(queue, draggedIndex.v)]_vars

\* [A,B,C,D] with C dropped on A: [C,A,B,D]
C16_Witness ==
  /\ last.op = "drop" /\ last.a = 2 /\ last.b = 0
  /\ draggedIndex = Num(2)
  /\ Ids(queue) = <<"C", "A", "B", "D">>

\* removeFromQueue, clearQueue or reset has just taken the last items off
\* the queue
Emptied ==
  /\ last'.op \in {"removeFromQueue", "clearQueue", "reset"}
  /\ Len(queue) > 0 /\ Len(queue') = 0

\* C17: in preserve mode, when a handler empties the queue there is no
\* current video and no cursor afterwards.
C17_EmptyQueueClearsCurrent ==
  [][(Emptied /\ preservePlaylist')
     => (currentVideo' = NullItem /\ currentVideoIndex' = Null)]_vars

\* the cursor before index in a queue of length items, going round
CursorBefore(index, length) ==
  IF index = Null THEN Num(0)
  ELSE IF index.v = 0 THEN Num(length - 1)
  ELSE Num(index.v - 1)

\* C18: previous() in consume mode leaves queue, current video and cursor as
\* they were and gives the player no command; in preserve mode with a
\* non-empty queue and a player that is ready it moves the cursor from 0 to
\* the last index, from another index one down and from null to 0, makes the
\* item there the current video and has the player load and play it.
C18_Previous ==
  [][last'.op = "previous"
     => /\ ~preservePlaylist
           => (/\ queue' = queue
               /\ currentVideo' = currentVideo
               /\ currentVideoIndex' = currentVideoIndex
               /\ last'.cmd = "none")
        /\ (/\ preservePlaylist /\ Len(queue) > 0 /\ player = "ready"
            /\ IsNum(currentVideoIndex) \/ currentVideoIndex = Null)
           => (/\ queue' = queue
               /\ currentVideoIndex' = CursorBefore(currentVideoIndex, Len(queue))
               /\ currentVideo' = At(queue, currentVideoIndex')
               /\ last'.cmd = "loadVideoById")]_vars

\* playNext(manual) has just run on a non-empty queue: from next(), from the
\* player's ENDED signal with autoplay on, or from an addToQueue call that
\* found no current video after its lookup
AdvancedManual == last'.op = "next" /\ Len(queue) > 0

AdvancedAuto ==
  \/ last'.op = "onEnded" /\ autoplay /\ Len(queue) > 0
  \/ last'.op = "lookupDone" /\ last'.b = 1 /\ ~IsObject(currentVideo)

\* C19: playNext on a non-empty queue, the player being ready, gives it one
\* command for the new current video: loadVideoById when manual or autoplay
\* is true, cueVideoById otherwise.
C19_LoadCommand ==
  [][((AdvancedManual \/ AdvancedAuto) /\ player = "ready")
     => (/\ ~last'.threw
         /\ IsObject(currentVideo')
         /\ last'.cmd = IF AdvancedManual \/ autoplay THEN "loadVideoById"
                                                     ELSE "cueVideoById")]_vars

\* C20: removeFromQueue given an index of the queue takes exactly the item
\* there off the queue, the others keeping their order, and leaves current
\* video and cursor as they were.
C20_RemoveFrame ==
  [][(last'.op = "removeFromQueue" /\ InRange(last'.a, queue))
     => (/\ queue' = Others(queue, last'.a)
         /\ currentVideo' = currentVideo
         /\ currentVideoIndex' = currentVideoIndex)]_vars

\* [A,B] with B playing at index 1, A removed: [B], the cursor still 1
C20_Witness ==
  /\ last.op = "removeFromQueue" /\ last.a = 0
  /\ preservePlaylist
  /\ Ids(queue) = <<"B">>
  /\ currentVideo.videoId = "B"
  /\ currentVideoIndex = Num(1)

\* C21: clearQueue() empties the queue and leaves current video, cursor, mode
\* and autoplay as they were.
C21_ClearFrame ==
  [][last'.op = "clearQueue"
     => (/\ queue' = <<>>
         /\ currentVideo' = currentVideo
         /\ currentVideoIndex' = currentVideoIndex
         /\ preservePlaylist' = preservePlaylist
         /\ autoplay' = autoplay)]_vars

\* the queue was cleared while B was playing at index 1: the record written
\* holds an empty queue, B and the cursor 1
C21_Witness ==
  /\ last.op = "clearQueue" /\ last.wrote
  /\ queue = <<>> /\ stored.queue = <<>>
  /\ preservePlaylist /\ autoplay
  /\ currentVideo.videoId = "B"
  /\ currentVideoIndex = Num(1)

\* the index of the first item of array whose videoId is id, as a value; null
\* when there is none
FirstIndexOf(array, id) ==
  IF \E k \in 1..Len(array) : IsObject(array[k]) /\ array[k].videoId = id
    THEN Num((CHOOSE k \in 1..Len(array) :
                /\ IsObject(array[k]) /\ array[k].videoId = id
                /\ \A j \in 1..(k - 1) :
                     ~(IsObject(array[j]) /\ array[j].videoId = id)) - 1)
    ELSE Null

\* C22: switching the mode to preserve sets the cursor to the index of the
\* first queue item that has the current video's videoId, and to null when
\* there is no current video or no queue item has that videoId.
C22_PreserveCursor ==
  [][(/\ last'.op = "togglePreservePlaylist"
      /\ ~preservePlaylist /\ preservePlaylist' /\ ~last'.threw)
     => currentVideoIndex' =
          IF IsObject(currentVideo) THEN FirstIndexOf(queue, currentVideo.videoId)
                                    ELSE Null]_vars

\* C23: switching the mode to consume sets the cursor to null and leaves the
\* queue and the current video as they were.
C23_ConsumeCursor ==
  [][(last'.op = "togglePreservePlaylist" /\ ~preservePlaylist')
     => (/\ currentVideoIndex' = Null
         /\ queue' = queue
         /\ currentVideo' = currentVideo)]_vars

\* the mode was switched to consume while the item at index 0 was playing: the
\* record, written before the cursor is set, still holds the cursor 0
C23_Witness ==
  /\ last.op = "togglePreservePlaylist" /\ last.wrote
  /\ ~preservePlaylist /\ stored.preservePlaylist = Bool(FALSE)
  /\ stored.currentVideoIndex = Num(0)
  /\ currentVideoIndex = Null
  /\ Len(queue) > 0 /\ currentVideo = queue[1]

\* loadSharedPlaylist has just gone through its whole list
ImportDone == last'.op = "lookupDone" /\ last'.notice = "success"

\* the index of the first occurrence of id in list
FirstAt(list, id) ==
  CHOOSE k \in 1..Len(list) :
    list[k] = id /\ \A j \in 1..(k - 1) : list[j] # id

NoRepeats(list) == \A i, j \in 1..Len(list) : i < j => list[i] # list[j]

\* every id of list is playing or queued, and the queue holds ids of list in
\* the order of their first occurrences
Imported(list, array, current) ==
  /\ \A k \in 1..Len(list) :
       \/ IsObject(current) /\ current.videoId = list[k]
       \/ \E i \in 1..Len(array) : IsObject(array[i]) /\ array[i].videoId = list[k]
  /\ \A i \in 1..Len(array) :
       IsObject(array[i]) /\ \E k \in 1..Len(list) : list[k] = array[i].videoId
  /\ \A i, j \in 1..Len(array) :
       i < j => FirstAt(list, array[i].videoId) < FirstAt(list, array[j].videoId)

IsDigits(text) == Len(text) > 0 /\ \A k \in 1..Len(text) : text[k] \in DigitChars

\* the number a string of digits writes
RECURSIVE Decimal(_)
Decimal(text) ==
  IF Len(text) = 0 THEN 0
  ELSE 10 * Decimal(SubSeq(text, 1, Len(text) - 1))
         + (CHOOSE d \in 0..9 : DigitValue(text[Len(text)]) = d)

\* the texts of the forms <m>m<s>s and <m>m<s>: where their m stands
MinutesAt(text) ==
  {i \in 1..Len(text) :
     /\ text[i] = "m"
     /\ IsDigits(SubSeq(text, 1, i - 1))
     /\ \/ IsDigits(SubSeq(text, i + 1, Len(text)))
        \/ /\ text[Len(text)] = "s"
           /\ IsDigits(SubSeq(text, i + 1, Len(text) - 1))}

\* the seconds a t parameter stands for, by its form; null for no form
Seconds(text) ==
  LET body == SubSeq(text, 1, Len(text) - 1)
  IN  IF IsDigits(text) THEN Num(Decimal(text))
      ELSE IF MinutesAt(text) # {} THEN
        LET i == CHOOSE i \in MinutesAt(text) : TRUE
            tail == SubSeq(text, i + 1, Len(text))
        IN  Num(Decimal(SubSeq(text, 1, i - 1)) * 60
                  + Decimal(IF IsDigits(tail) THEN tail
                            ELSE SubSeq(tail, 1, Len(tail) - 1)))
      ELSE IF Len(text) > 1 /\ text[Len(text)] = "m" /\ IsDigits(body)
        THEN Num(Decimal(body) * 60)
      ELSE IF Len(text) > 1 /\ text[Len(text)] = "s" /\ IsDigits(body)
        THEN Num(Decimal(body))
      ELSE Null

\* t=90 gives 90, t=2m5s and t=2m5 give 125, t=2m gives 120, t=5s gives 5;
\* t=m5 and t=5s2 give null, and so does a link without t
StartTimeExamples ==
  /\ ExtractStartTime(Link("A", TRUE, <<"9", "0">>)) = Num(90)
  /\ ExtractStartTime(Link("A", TRUE, <<"2", "m", "5", "s">>)) = Num(125)
  /\ ExtractStartTime(Link("A", TRUE, <<"2", "m", "5">>)) = Num(125)
  /\ ExtractStartTime(Link("A", TRUE, <<"2", "m">>)) = Num(120)
  /\ ExtractStartTime(Link("A", TRUE, <<"5", "s">>)) = Num(5)
  /\ ExtractStartTime(Link("A", TRUE, <<"m", "5">>)) = Null
  /\ ExtractStartTime(Link("A", TRUE, <<"5", "s", "2">>)) = Null
  /\ ExtractStartTime(Link("A", FALSE, <<>>)) = Null

\* C25: the start time addYoutubeLink hands to addToQueue is the seconds the
\* link's t parameter stands for: digits d give d, <m>m<s>s and <m>m<s> give
\* m*60+s, <m>m gives m*60, <s>s gives s, and no t parameter or one of another
\* form gives null; so for the examples above.
C25_StartTime ==
  /\ []StartTimeExamples
  /\ [][(last'.op = "addYoutubeLink" /\ youtubeLinkInput.videoId # "")
        => /\ Len(pending') = 1
           /\ pending'[1].startTime =
                IF youtubeLinkInput.present THEN Seconds(youtubeLinkInput.text)
                                            ELSE Null]_vars

\* a link with t=2m5s or t=2m5 was added and looked up: the item starts at 125
C25_Witness ==
  /\ last.op = "lookupDone" /\ last.b = 1
  /\ Len(queue) = 1 /\ queue[1].startTime = Num(125)

\* the handlers that are operations of the queue engine
EngineOps ==
  {"addToQueue", "addYoutubeLink", "clearQueue", "removeFromQueue", "drop",
   "next", "previous", "togglePreservePlaylist"}

\* C26: between the duplicate check of an addToQueue call and its append, that
\* is while its lookup is pending, no other operation of the engine runs.
C26_EnqueueAtomic ==
  [][Len(pending) > 0 => last'.op \notin EngineOps]_vars

\* C27: whatever signals the player has sent and whatever stop and reset did,
\* at most one polling interval is live, and one is live exactly when
\* progressInterval holds a handle.
C27_OnePollingTask ==
  /\ intervals \in {0, 1}
  /\ intervals = 1 <=> progressInterval # Null

\* the player reported PLAYING and one interval is live
C27_Witness ==
  /\ last.op = "onPlaying"
  /\ player = "ready"
  /\ progressInterval = Handle
  /\ intervals = 1

\* C28: polling is live only while the player plays: it is not live after the
\* player became ready, paused, buffered or ended, nor after stop() or reset()
\* ran, until the player reports PLAYING.
C28_PollingOnlyWhilePlaying ==
  last.op \in {"onPlayerReady", "onPaused", "onBuffering", "onEnded", "stop", "reset"}
    => intervals = 0

\* the cursor is an index of the queue and the current video is the item there
CursorValid ==
  /\ IsNum(currentVideoIndex)
  /\ InRange(currentVideoIndex.v, queue)
  /\ IsObject(currentVideo)
  /\ currentVideo = queue[currentVideoIndex.v + 1]

\* C29: after previous() has run in preserve mode on a non-empty queue, the
\* player being there, the cursor is an index of the queue and the current
\* video is the item at it.
C29_PreviousInRange ==
  [][(/\ last'.op = "previous"
      /\ player # "none" /\ preservePlaylist /\ Len(queue) > 0)
     => CursorValid']_vars

\* C30: after playNext has run in preserve mode on a non-empty queue, from
\* next() or from the player's ENDED signal with autoplay on, the cursor is an
\* index of the queue and the current video is the item at it.
C30_AdvanceInRange ==
  [][(/\ \/ last'.op = "next"
         \/ last'.op = "onEnded" /\ autoplay
      /\ preservePlaylist /\ Len(queue) > 0)
     => CursorValid']_vars

\* the state a handler starts from when the handler before it ended in s
Settled(s) ==
  [s EXCEPT !.cmd = "none", !.notice = "none", !.threw = FALSE, !.wrote = FALSE]

\* the states after each of the Len(manuals) playNext calls made one after
\* the other from s, manuals[k] telling whether the k-th came from next()
\* (rather than from the player's ENDED signal)
RECURSIVE Advances(_, _)
Advances(s, manuals) ==
  IF Len(manuals) = 0 THEN <<>>
  ELSE LET t == PlayNext(Settled(s), Head(manuals))
       IN  <<t>> \o Advances(t, Tail(manuals))

\* preserve mode, a queue of at least one item and a cursor that is one of
\* its indices
CycleStart ==
  /\ preservePlaylist
  /\ Len(queue) >= 1
  /\ IsNum(currentVideoIndex)
  /\ InRange(currentVideoIndex.v, queue)

\* as many playNext calls as the queue is long, nothing else in between,
\* leave the queue alone, make the item at every index the current video in
\* exactly one of the calls and end on the cursor they started from
FullCycle ==
  \A manuals \in [1..Len(queue) -> BOOLEAN] :
    LET run == Advances(Cur, manuals)
    IN  /\ \A k \in 1..Len(run) : run[k].queue = queue
        /\ \A j \in 1..Len(queue) :
             Cardinality({k \in 1..Len(run) :
                            /\ run[k].currentVideoIndex = Num(j - 1)
                            /\ run[k].currentVideo = queue[j]}) = 1
        /\ run[Len(run)].currentVideoIndex = currentVideoIndex

\* previous() called right after a playNext call puts the cursor back where
\* it was before that call
StepBackRestores ==
  \A manual \in BOOLEAN :
    LET advanced == PlayNext(Cur, manual)
    IN  Previous(Settled(advanced)).currentVideoIndex = currentVideoIndex

\* C31, with or without a player: in preserve mode with a cursor inside
\* a non-empty queue, a full round of playNext calls makes every item the
\* current video once and ends on the starting cursor, and previous() right
\* after a playNext call restores the cursor, whether or not a player exists.
C31_CycleAndStepBackAnyPlayer ==
  CycleStart => (FullCycle /\ StepBackRestores)

\* C31: in preserve mode with a cursor inside a non-empty queue, a full round
\* of playNext calls makes every item the current video once and ends on the
\* starting cursor; once this.player is set, previous() right after a
\* playNext call restores the cursor that call started from.
C31_CycleAndStepBack ==
  CycleStart => (FullCycle /\ (player # "none" => StepBackRestores))

\* next() has just wrapped the cursor of a full-length playlist round to 0
\* with the player ready, and previous() from here goes back to the last index
C31_Witness ==
  /\ last.op = "next" /\ last.cmd = "loadVideoById"
  /\ CycleStart /\ player = "ready"
  /\ Len(queue) = MaxReorder
  /\ currentVideoIndex = Num(0)
  /\ Previous(Cur).currentVideoIndex = Num(MaxReorder - 1)

\* every item of array with the videoId first stands before every item with
\* the videoId second
Precedes(array, first, second) ==
  \A i, j \in 1..Len(array) :
    (/\ IsObject(array[i]) /\ array[i].videoId = first
     /\ IsObject(array[j]) /\ array[j].videoId = second)
    => i < j

\* the state after the lookups of the two addToQueue calls settled, that of
\* call a before that of call b, oks telling which of them succeeded
BothDone(s, a, b, oks) ==
  AddToQueueResume(Settled(AddToQueueResume(s, a, oks[1])), b, oks[2])

\* C32: of two addToQueue calls for different videos that both passed the
\* duplicate test, the item of the call made first stands before the item of
\* the call made second once both lookups have settled, in whichever order
\* they settle.
C32_RequestOrder ==
  \A j, k \in 1..Len(pending) :
    (/\ j < k
     /\ ~pending[j].shared /\ ~pending[k].shared
     /\ pending[j].videoId # pending[k].videoId)
    => \A oks \in [1..2 -> BOOLEAN] :
         /\ Precedes(BothDone(Cur, pending[j], pending[k], oks).queue,
                     pending[j].videoId, pending[k].videoId)
         /\ Precedes(BothDone(Cur, pending[k], pending[j], oks).queue,
                     pending[j].videoId, pending[k].videoId)

\* the number of items playNext took off the head of the queue in this step:
\* in consume mode the current video changes only by taking one
TakenOff == IF ~preservePlaylist /\ currentVideo' # currentVideo THEN 1 ELSE 0

\* C33: one addToQueue call, from the end of its lookup to its own end,
\* appends at most one item to the queue, also when a statement after the
\* push of the fetched item throws.
C33_OneAppend ==
  [][last'.op = "lookupDone"
     => Len(queue') + TakenOff <= Len(queue) + 1]_vars

\* C35: on the player's ENDED signal the controller calls playNext(false)
\* when autoplay is on, and then the queue, the current video, the cursor and
\* the player command are those of that call; when autoplay is off the
\* signal leaves queue, current video and cursor as they were and gives the
\* player no command.
C35_EndedAdvancesIffAutoplay ==
  [][last'.op = "onEnded"
     => LET advanced == PlayNext(Cur, FALSE)
        IN  IF autoplay
              THEN /\ queue' = advanced.queue
                   /\ currentVideo' = advanced.currentVideo
                   /\ currentVideoIndex' = advanced.currentVideoIndex
                   /\ last'.cmd = advanced.cmd
                   /\ last'.threw = advanced.threw
              ELSE /\ queue' = queue
                   /\ currentVideo' = currentVideo
                   /\ currentVideoIndex' = currentVideoIndex
                   /\ last'.cmd = "none"]_vars

\* the ENDED signal has just made the next video of a consume-mode queue the
\* current one and had the player load and play it
C35_Witness ==
  /\ last.op = "onEnded" /\ autoplay /\ ~preservePlaylist
  /\ last.cmd = "loadVideoById" /\ last.wrote
  /\ IsObject(currentVideo) /\ currentVideo.videoId = "A"
  /\ queue = <<>>

\* C34: when this.client, the client made last, has connected, the
\* 'disconnected' event or the connect failure of a client made before it
\* leaves isConnected as it is.
C34_LatestClientDecides ==
  [][(/\ last'.op \in {"clientDisconnected", "clientFailed"}
      /\ last'.a < Len(clients)
      /\ clients[Len(clients)] = "connected")
     => isConnected' = isConnected]_vars

====
